---------------------------- MODULE Spec2Model ----------------------------
(***************************************************************************)
(* A model of extract_knobs.py: unextrude (quad mesh -> clockwise 2D       *)
(* polygon), get_knobs (polygon -> normalised knob curves) and main (the   *)
(* catalog loop and the write of knobs.txt).                               *)
(*                                                                         *)
(* Numbers.  The program computes with Python floats; the model computes   *)
(* with exact integers.  A mesh coordinate is an integer count of units of *)
(* 0.0002, so that 1 is 5000 units and the oversize factor 1.0018 is 5009  *)
(* units.  A normalised coordinate (after line 94) is an integer numerator *)
(* over Den = 10018:  (p - m) / 1.0018 + 0.5 with m = (a + b) / 2 equals   *)
(* (2p - a - b + 5009) / 10018 when p, a, b are counts of 0.0002.          *)
(* Every comparison of the code against a decimal constant is made on      *)
(* these fractions exactly; rounding of the floats is not modelled.        *)
(***************************************************************************)
EXTENDS Integers, Sequences, FiniteSets, TLC

VARIABLES
    files,      \* main: the mesh files the glob yields, in order
    fi,         \* main: index of the file being processed (1-based)
    pc,         \* position in main / unextrude / get_knobs
    p2p,        \* unextrude: the adjacency dict, in key insertion order
    poly,       \* unextrude: the chain; then get_knobs' argument
    polylines,  \* get_knobs: the side polylines
    knobs,      \* main: the catalog list
    out,        \* knobs.txt: <<>> while not written, else <<lines>>
    err         \* source line of the statement that raised, 0 if none

vars == <<files, fi, pc, p2p, poly, polylines, knobs, out, err>>

-----------------------------------------------------------------------------
(* Generic helpers *)

Abs(n) == IF n < 0 THEN -n ELSE n

Range(s) == {s[i] : i \in 1..Len(s)}

Reverse(s) == [i \in 1..Len(s) |-> s[Len(s) + 1 - i]]

\* a * d < n for integers a, n and d > 0, without forming the product a * d
LtFrac(a, n, d) == a <= (n - 1) \div d

Ok(v) == [ok |-> TRUE, val |-> v, at |-> 0]

\* an exception raised by the statement at source line `line`
Raise(line) == [ok |-> FALSE, val |-> <<>>, at |-> line]

-----------------------------------------------------------------------------
(* unextrude, lines 11-51 *)

\* p2p = defaultdict(list): a sequence of [k, v] entries in insertion order
HasKey(d, k) == \E i \in 1..Len(d) : d[i].k = k

Get(d, k) == d[CHOOSE i \in 1..Len(d) : d[i].k = k].v

\* p2p[k].append(x): the key is inserted (with []) when it is missing
DictAppend(d, k, x) ==
    IF HasKey(d, k)
    THEN LET i == CHOOSE i \in 1..Len(d) : d[i].k = k IN
         SubSeq(d, 1, i - 1) \o <<[k |-> k, v |-> Append(d[i].v, x)]>>
             \o SubSeq(d, i + 1, Len(d))
    ELSE Append(d, [k |-> k, v |-> <<x>>])

\* line 21: a face record with four vertex references
IsQuad(a) == Len(a) = 4

\* line 23: the vertices of the quad that lie above the xz plane
Above0(p3) == p3[2] > 0

\* lines 22-23: the (x, z) of the quad's vertices with y > 0, in face order
Points2(vertices3, a) ==
    LET up == SelectSeq([i \in 1..4 |-> vertices3[a[i]]], Above0)
    IN  [i \in 1..Len(up) |-> <<up[i][1], up[i][3]>>]

\* lines 21-26 for one face record; r is the state of the loop so far: the
\* dict, or the exception already raised
ReadFace(r, vertices3, a) ==
    IF ~r.ok \/ ~IsQuad(a) THEN r
    ELSE LET points2 == Points2(vertices3, a) IN
         IF Len(points2) # 2 THEN Raise(24)
         ELSE Ok(DictAppend(DictAppend(r.val, points2[1], points2[2]),
                            points2[2], points2[1]))

\* lines 15-26: the loop over the file's lines lo..hi in order, as the first
\* half of the range followed by the second; an assertion that failed in the
\* first half ends the loop.  A mesh is [v, f]: the vertex records in file
\* order and the face records (1-based vertex indexes).
RECURSIVE ReadFaces(_, _, _, _, _)
ReadFaces(r, vertices3, faces, lo, hi) ==
    IF lo > hi THEN r
    ELSE IF lo = hi THEN ReadFace(r, vertices3, faces[lo])
    ELSE LET mid == (lo + hi) \div 2
             left == ReadFaces(r, vertices3, faces, lo, mid)
         IN  IF ~left.ok THEN left
             ELSE ReadFaces(left, vertices3, faces, mid + 1, hi)

\* lines 27-28
ValidP2p(d) ==
    IF Len(d) < 3 THEN Raise(27)
    ELSE IF \E i \in 1..Len(d) : Len(d[i].v) # 2 THEN Raise(28)
    ELSE Ok(d)

\* lines 13-28
BuildP2p(mesh) ==
    LET r == ReadFaces(Ok(<<>>), mesh.v, mesh.f, 1, Len(mesh.f)) IN
    IF r.ok THEN ValidP2p(r.val) ELSE r

\* the state of the while loop of lines 34-43
Walk(chain, lastp, currp) ==
    [ok |-> TRUE, val |-> chain, at |-> 0, lastp |-> lastp, currp |-> currp]

\* lines 35-43: one iteration; w is the state of the loop so far, or the
\* exception already raised
ChainStep(d, w) ==
    IF ~w.ok THEN w
    ELSE LET choices == Get(d, w.currp) IN
         IF w.lastp \notin Range(choices) THEN Raise(37)
         ELSE Walk(Append(w.val, w.currp), w.currp,
                   IF choices[1] = w.lastp THEN choices[2] ELSE choices[1])

\* n iterations of the while loop (in two halves, as for ReadFaces)
RECURSIVE ChainSteps(_, _, _)
ChainSteps(d, w, n) ==
    IF n = 0 THEN w
    ELSE IF n = 1 THEN ChainStep(d, w)
    ELSE LET half == ChainSteps(d, w, n \div 2)
         IN  IF ~half.ok THEN half
             ELSE ChainSteps(d, half, n - (n \div 2))

\* lines 30-43 without the assertion of line 44
ChainOpen(d) ==
    LET startp == d[1].k
        w == ChainSteps(d, Walk(<<startp>>, startp, Get(d, startp)[1]), Len(d) - 1)
    IN  IF ~w.ok THEN w ELSE Ok(w.val)

\* lines 30-44: the loop runs while len(poly) < len(p2p), that is len(p2p) - 1
\* times, and then the chain must be back at its first point
Chain(d) ==
    LET startp == d[1].k
        w == ChainSteps(d, Walk(<<startp>>, startp, Get(d, startp)[1]), Len(d) - 1)
    IN  IF ~w.ok THEN w
        ELSE IF w.currp = w.val[1] THEN Ok(w.val) ELSE Raise(44)

\* line 48: the term of the edge from c[i] to the next point, cyclically
AreaTerm(c, i) ==
    (c[(i % Len(c)) + 1][1] - c[i][1]) * (c[(i % Len(c)) + 1][2] + c[i][2])

\* lines 46-48: the sum of the terms lo..hi (in two halves, as for ReadFaces)
RECURSIVE AreaRange(_, _, _)
AreaRange(c, lo, hi) ==
    IF lo > hi THEN 0
    ELSE IF lo = hi THEN AreaTerm(c, lo)
    ELSE AreaRange(c, lo, (lo + hi) \div 2) + AreaRange(c, (lo + hi) \div 2 + 1, hi)

\* lines 46-48: the shoelace sum over the closed chain
Area(c) == AreaRange(c, 1, Len(c))

\* lines 49-51 with the test the wrong way round
ClockwiseWrongSign(c) == IF Area(c) > 0 THEN Reverse(c) ELSE c

\* lines 49-51
Clockwise(c) == IF Area(c) < 0 THEN Reverse(c) ELSE c

-----------------------------------------------------------------------------
(* get_knobs, lines 73-113 *)

\* 1.0018 in mesh units, and 0.5 as a numerator over Den (line 94)
Half == 5009

\* the denominator of a normalised coordinate: 2 * 1.0018 / 0.0002 (line 94)
Den == 10018

\* lines 76-79: max(range(len(poly)), key = a*x + b*y), the first maximum
ArgMax(c, a, b) ==
    CHOOSE i \in 1..Len(c) :
        /\ \A j \in 1..Len(c) : a * c[j][1] + b * c[j][2] <= a * c[i][1] + b * c[i][2]
        /\ \A j \in 1..(i - 1) : a * c[j][1] + b * c[j][2] < a * c[i][1] + b * c[i][2]

\* lines 75-80: upper right, lower right, lower left, upper left (1-based)
CornerIndexes(c) ==
    <<ArgMax(c, 1, 1), ArgMax(c, 1, -1), ArgMax(c, -1, -1), ArgMax(c, -1, 1)>>

\* line 84 with the second corner left out: poly[i0:i1], or poly[i0:] + poly[:i1]
SliceExclusive(c, i0, i1) ==
    IF i1 >= i0 THEN SubSeq(c, i0, i1 - 1)
    ELSE SubSeq(c, i0, Len(c)) \o SubSeq(c, 1, i1 - 1)

\* line 84: poly[i0:i1+1], or poly[i0:] + poly[:i1+1] when i1 < i0
Slice(c, i0, i1) ==
    IF i1 >= i0 THEN SubSeq(c, i0, i1)
    ELSE SubSeq(c, i0, Len(c)) \o SubSeq(c, 1, i1)

\* lines 82-84: the four sides (ur, lr), (lr, ll), (ll, ul), (ul, ur)
Sides(c) ==
    LET ci == CornerIndexes(c) IN
    [k \in 1..4 |-> Slice(c, ci[k], ci[(k % 4) + 1])]

\* lines 86-88: right side 90 deg ccw, bottom 180 deg, left 90 deg cw, top kept
Rotate(k, p) ==
    CASE k = 1 -> <<-p[2], p[1]>>
      [] k = 2 -> <<-p[1], -p[2]>>
      [] k = 3 -> <<p[2], -p[1]>>
      [] OTHER -> p

\* lines 91-94: numerators over Den of ((x - mx) / 1.0018 + 0.5, (y - my) / 1.0018)
Normalize(pl) ==
    LET a == pl[1]
        b == pl[Len(pl)]
    IN  [i \in 1..Len(pl) |->
            <<2 * pl[i][1] - a[1] - b[1] + Half, 2 * pl[i][2] - a[2] - b[2]>>]

\* lines 85-94
RotateNormalize(pls) ==
    [k \in 1..4 |-> Normalize([i \in 1..Len(pls[k]) |-> Rotate(k, pls[k][i])])]

\* lines 97-98, the x test: abs(x) < 0.0001 for the fraction n / Den
CloseTo(n) == LtFrac(Abs(n), Den, 10000)

\* the y test with the tolerance of the x test, 0.0001
LevelLoose(n) == LtFrac(Abs(n), Den, 10000)

\* lines 97-98, the y test: abs(y) < 0.000001 for the fraction n / Den
Level(n) == LtFrac(Abs(n), Den, 1000000)

\* line 97: abs(pl[0][0]) < 0.0001 and abs(pl[0][1]) < 0.000001
FirstOk(pl) == CloseTo(pl[1][1]) /\ Level(pl[1][2])

\* line 98: abs(1 - pl[-1][0]) < 0.0001 and abs(pl[-1][1]) < 0.000001
LastOk(pl) == CloseTo(Den - pl[Len(pl)][1]) /\ Level(pl[Len(pl)][2])

\* line 99 dropping the first point only: pl[1:]
TrimFirstOnly(pl) == SubSeq(pl, 2, Len(pl))

\* line 99: pl[1:-1]
Trim(pl) == SubSeq(pl, 2, Len(pl) - 1)

\* lines 96-99: the loop over the sides, from side k on
RECURSIVE CheckEndpointsFrom(_, _)
CheckEndpointsFrom(pls, k) ==
    IF k > Len(pls) THEN Ok(pls)
    ELSE IF ~FirstOk(pls[k]) THEN Raise(97)
    ELSE IF ~LastOk(pls[k]) THEN Raise(98)
    ELSE CheckEndpointsFrom([pls EXCEPT ![k] = Trim(pls[k])], k + 1)

CheckEndpoints(pls) == CheckEndpointsFrom(pls, 1)

\* line 102 collecting the sides last to first
RECURSIVE NonEmptyBackwards(_)
NonEmptyBackwards(pls) ==
    IF pls = <<>> THEN <<>>
    ELSE IF Len(Head(pls)) > 0 THEN NonEmptyBackwards(Tail(pls)) \o <<Head(pls)>>
    ELSE NonEmptyBackwards(Tail(pls))

\* line 102: the sides that are not empty, in order
RECURSIVE NonEmpty(_)
NonEmpty(pls) ==
    IF pls = <<>> THEN <<>>
    ELSE IF Len(Head(pls)) > 0 THEN <<Head(pls)>> \o NonEmpty(Tail(pls))
    ELSE NonEmpty(Tail(pls))

\* lines 101-102
DiscardStraight(pls) ==
    IF \E k \in 1..Len(pls) : ~(Len(pls[k]) = 0 \/ Len(pls[k]) >= 4)
    THEN Raise(101)
    ELSE Ok(NonEmpty(pls))

\* line 106: e[0][0] < 0.5 <= e[1][0] for the segment (pl[i], pl[i+1])
Crosses(pl, i) == pl[i][1] < Half /\ Half <= pl[i + 1][1]

HasCrossing(pl) == \E i \in 1..(Len(pl) - 1) : Crosses(pl, i)

\* line 106: next(...), the first such segment
CrossingIndex(pl) ==
    CHOOSE i \in 1..(Len(pl) - 1) :
        Crosses(pl, i) /\ \A j \in 1..(i - 1) : ~Crosses(pl, j)

\* line 108 times its positive divisor: cy = CyNum / (CyDen * Den) with
\* CyNum = (y1 - y0) * (0.5 - x0) + y0 * (x1 - x0) and CyDen = x1 - x0
CyNum(pl, i) ==
    (pl[i + 1][2] - pl[i][2]) * (Half - pl[i][1])
        + pl[i][2] * (pl[i + 1][1] - pl[i][1])

CyDen(pl, i) == pl[i + 1][1] - pl[i][1]

\* line 110 dropped: any depth passes
AnyDepth(pl, i) == TRUE

\* line 110: abs(cy) >= 0.15, that is 20 * |CyNum| >= 3 * Den * CyDen, halved
\* (3 * Den / 2 = 15027)
DeepEnough(pl, i) == 10 * Abs(CyNum(pl, i)) >= 15027 * CyDen(pl, i)

\* line 112
MirrorY(pl) == [i \in 1..Len(pl) |-> <<pl[i][1], -pl[i][2]>>]

\* lines 106-112 flipping the knobs instead of the holes
FlipOneWrongSign(pl) ==
    IF ~HasCrossing(pl) THEN Raise(106)
    ELSE LET i == CrossingIndex(pl) IN
         IF ~DeepEnough(pl, i) THEN Raise(110)
         ELSE IF CyNum(pl, i) > 0 THEN Ok(MirrorY(pl)) ELSE Ok(pl)

\* lines 106-112 for one curve
FlipOne(pl) ==
    IF ~HasCrossing(pl) THEN Raise(106)
    ELSE LET i == CrossingIndex(pl) IN
         IF ~DeepEnough(pl, i) THEN Raise(110)
         ELSE IF CyNum(pl, i) < 0 THEN Ok(MirrorY(pl)) ELSE Ok(pl)

\* lines 104-112: the loop over the curves, from curve k on
RECURSIVE FlipFrom(_, _)
FlipFrom(pls, k) ==
    IF k > Len(pls) THEN Ok(pls)
    ELSE LET r == FlipOne(pls[k]) IN
         IF ~r.ok THEN r
         ELSE FlipFrom([pls EXCEPT ![k] = r.val], k + 1)

FlipHoles(pls) == FlipFrom(pls, 1)

\* get_knobs as a whole, lines 73-113
GetKnobs(c) ==
    LET e == CheckEndpoints(RotateNormalize(Sides(c))) IN
    IF ~e.ok THEN e
    ELSE LET d == DiscardStraight(e.val) IN
         IF ~d.ok THEN d ELSE FlipHoles(d.val)

\* unextrude as a whole, lines 11-51
Unextrude(mesh) ==
    LET b == BuildP2p(mesh) IN
    IF ~b.ok THEN b
    ELSE LET c == Chain(b.val) IN
         IF ~c.ok THEN c ELSE Ok(Clockwise(c.val))

-----------------------------------------------------------------------------
(* main, lines 116-127 *)

\* f"{x:.6f}" of the fraction n / Den: the count of millionths, rounded
Micro(n) ==
    LET a  == Abs(n) * 1000
        q1 == a \div Den
        r1 == a % Den
        q2 == (r1 * 1000) \div Den
        r2 == (r1 * 1000) % Den
        m  == q1 * 1000 + q2 + (IF 2 * r2 >= Den THEN 1 ELSE 0)
    IN  IF n < 0 THEN -m ELSE m

\* line 127: one line of knobs.txt per knob
FormatKnob(knob) == [i \in 1..Len(knob) |-> <<Micro(knob[i][1]), Micro(knob[i][2])>>]

-----------------------------------------------------------------------------
(* The steps of main: for each file, unextrude then get_knobs then extend;   *)
(* then the write of knobs.txt.  An exception leaves main (pc = "failed").   *)

\* an exception that is swallowed: the piece goes on to knobs.extend
FailSwallowed(line) ==
    /\ pc' = "extend"
    /\ err' = line

\* an exception propagates out of main: nothing runs after it
Fail(line) ==
    /\ pc' = "failed"
    /\ err' = line

\* lines 118-119, 13-28: the next file of the glob is opened and read
ReadMesh ==
    /\ pc = "glob"
    /\ fi <= Len(files)
    /\ LET r == BuildP2p(files[fi]) IN
       IF r.ok
       THEN /\ p2p' = r.val
            /\ pc' = "chain"
            /\ err' = err
       ELSE /\ Fail(r.at)
            /\ p2p' = p2p
    /\ UNCHANGED <<files, fi, poly, polylines, knobs, out>>

\* lines 29-44
ChainPoints ==
    /\ pc = "chain"
    /\ LET r == Chain(p2p) IN
       IF r.ok
       THEN /\ poly' = r.val
            /\ pc' = "area"
            /\ err' = err
       ELSE /\ Fail(r.at)
            /\ poly' = poly
    /\ UNCHANGED <<files, fi, p2p, polylines, knobs, out>>

\* lines 45-51: unextrude returns; its result is get_knobs' argument
EnsureClockwise ==
    /\ pc = "area"
    /\ poly' = Clockwise(poly)
    /\ pc' = "corners"
    /\ UNCHANGED <<files, fi, p2p, polylines, knobs, out, err>>

\* lines 74-84
ExtractSides ==
    /\ pc = "corners"
    /\ polylines' = Sides(poly)
    /\ pc' = "rotate"
    /\ UNCHANGED <<files, fi, p2p, poly, knobs, out, err>>

\* lines 85-94
NormalizeSides ==
    /\ pc = "rotate"
    /\ polylines' = RotateNormalize(polylines)
    /\ pc' = "endpoints"
    /\ UNCHANGED <<files, fi, p2p, poly, knobs, out, err>>

\* lines 95-99
DropEndpoints ==
    /\ pc = "endpoints"
    /\ LET r == CheckEndpoints(polylines) IN
       IF r.ok
       THEN /\ polylines' = r.val
            /\ pc' = "filter"
            /\ err' = err
       ELSE /\ Fail(r.at)
            /\ polylines' = polylines
    /\ UNCHANGED <<files, fi, p2p, poly, knobs, out>>

\* lines 100-102
FilterStraight ==
    /\ pc = "filter"
    /\ LET r == DiscardStraight(polylines) IN
       IF r.ok
       THEN /\ polylines' = r.val
            /\ pc' = "flip"
            /\ err' = err
       ELSE /\ Fail(r.at)
            /\ polylines' = polylines
    /\ UNCHANGED <<files, fi, p2p, poly, knobs, out>>

\* lines 103-113: get_knobs returns polylines
FlipToKnobs ==
    /\ pc = "flip"
    /\ LET r == FlipHoles(polylines) IN
       IF r.ok
       THEN /\ polylines' = r.val
            /\ pc' = "extend"
            /\ err' = err
       ELSE /\ Fail(r.at)
            /\ polylines' = polylines
    /\ UNCHANGED <<files, fi, p2p, poly, knobs, out>>

\* line 119: knobs.extend(...), and the loop moves to the next file
Extend ==
    /\ pc = "extend"
    /\ knobs' = knobs \o polylines
    /\ fi' = fi + 1
    /\ pc' = "glob"
    /\ p2p' = <<>>
    /\ poly' = <<>>
    /\ polylines' = <<>>
    /\ UNCHANGED <<files, out, err>>

\* lines 125-127: after the loop, knobs.txt is written
WriteKnobs ==
    /\ pc = "glob"
    /\ fi > Len(files)
    /\ out' = <<[k \in 1..Len(knobs) |-> FormatKnob(knobs[k])]>>
    /\ pc' = "done"
    /\ UNCHANGED <<files, fi, p2p, poly, polylines, knobs, err>>

Next ==
    \/ ReadMesh
    \/ ChainPoints
    \/ EnsureClockwise
    \/ ExtractSides
    \/ NormalizeSides
    \/ DropEndpoints
    \/ FilterStraight
    \/ FlipToKnobs
    \/ Extend
    \/ WriteKnobs

\* main starts: knobs = [], nothing read, nothing written (line 117)
Start(fs) ==
    /\ files = fs
    /\ fi = 1
    /\ pc = "glob"
    /\ p2p = <<>>
    /\ poly = <<>>
    /\ polylines = <<>>
    /\ knobs = <<>>
    /\ out = <<>>
    /\ err = 0

-----------------------------------------------------------------------------
(* Mesh files.  A mesh is built the way the extrusion lays it out: each 2D  *)
(* point gives a vertex above the xz plane (y = 1) and one below (y = -1),  *)
(* each boundary edge gives one quad, and a cap gives faces that are not    *)
(* quads.                                                                   *)

\* vertex records: point i is vertex 2i-1 (above) and vertex 2i (below)
Vertices(pts) ==
    [i \in 1..(2 * Len(pts)) |->
        IF i % 2 = 1 THEN <<pts[(i + 1) \div 2][1], 1, pts[(i + 1) \div 2][2]>>
        ELSE <<pts[i \div 2][1], -1, pts[i \div 2][2]>>]

\* the quad of the edge from point e[1] to point e[2]
Quad(e) == <<2 * e[1] - 1, 2 * e[2] - 1, 2 * e[2], 2 * e[1]>>

\* a mesh with one quad per edge, after a triangle of the top cap
MeshOf(pts, edges) ==
    [v |-> Vertices(pts),
     f |-> <<(<<1, 3, 5>>)>> \o [i \in 1..Len(edges) |-> Quad(edges[i])]]

\* the mesh of the closed outline pts[1] -> pts[2] -> ... -> pts[1]
OutlineEdges(n) == [i \in 1..n |-> <<i, (i % n) + 1>>]

OutlineMesh(pts) == MeshOf(pts, OutlineEdges(Len(pts)))

-----------------------------------------------------------------------------
(* Small meshes: every list of up to MaxFaces quads between four points,    *)
(* and pairs of separate closed chains of up to MaxCycle points each.       *)

MaxFaces == 4

GridPts == <<(<<0, 0>>), (<<2, 0>>), (<<2, 1>>), (<<0, 2>>)>>

GridEdges == {e \in (1..4) \X (1..4) : e[1] # e[2]}

\* two separate closed chains of m and n points (2: one edge given by two faces)
MaxCycle == 4

CyclePts(m, off) == [i \in 1..m |-> <<off + i, i * i>>]

CycleEdges(m, base) == [i \in 1..m |-> <<base + i, base + (i % m) + 1>>]

CyclePair(m, n) ==
    MeshOf(CyclePts(m, 0) \o CyclePts(n, 10), CycleEdges(m, 0) \o CycleEdges(n, m))

\* a quad with three vertices above the xz plane (line 24 raises)
BadQuad ==
    [v |-> Vertices(GridPts), f |-> <<(<<1, 3, 2, 4>>), (<<1, 3, 5, 2>>)>>]

-----------------------------------------------------------------------------
(* Puzzle pieces: a W x H rectangle with corners LL = (0, 0), LR = (W, 0),  *)
(* UR = (W, H + skew), UL = (0, H), and on each side a profile: points      *)
(* (t, h) at distance t along the side from its first corner (walking       *)
(* clockwise) and h outward of it.                                          *)

Straight == <<>>

Knob == <<(<<2000, 100>>), (<<1800, 900>>), (<<3300, 1200>>), (<<3000, 100>>)>>

\* the least and the largest depth around 0.15 * 1.0018 = 751.35 units
KnobMin == <<(<<2000, 100>>), (<<1800, 752>>), (<<3200, 752>>), (<<3000, 100>>)>>

Shallow == <<(<<2000, 100>>), (<<1800, 751>>), (<<3200, 751>>), (<<3000, 100>>)>>

Bump1 == <<(<<2500, 800>>)>>

Bump2 == <<(<<2000, 800>>), (<<3000, 800>>)>>

Bump3 == <<(<<2000, 800>>), (<<2500, 900>>), (<<3000, 800>>)>>

\* four points that never cross the middle of the side
NoCross == <<(<<500, 100>>), (<<400, 300>>), (<<1000, 300>>), (<<900, 100>>)>>

\* a curve whose first point lies beyond the middle of the side
Late == <<(<<4500, 200>>), (<<2000, 1000>>), (<<3000, 1000>>), (<<4800, 100>>)>>

Inward(prof) == [i \in 1..Len(prof) |-> <<prof[i][1], -prof[i][2]>>]

Profiles ==
    {Straight, Knob, Inward(Knob), KnobMin, Inward(KnobMin), Shallow, Bump1, Bump2,
     Bump3, NoCross, Late, Inward(Late)}

\* the outline, clockwise from the upper right corner
PiecePts(W, H, skew, profs) ==
    <<(<<W, H + skew>>)>>
    \o [i \in 1..Len(profs[1]) |-> <<W + profs[1][i][2], H - profs[1][i][1]>>]
    \o <<(<<W, 0>>)>>
    \o [i \in 1..Len(profs[2]) |-> <<W - profs[2][i][1], -profs[2][i][2]>>]
    \o <<(<<0, 0>>)>>
    \o [i \in 1..Len(profs[3]) |-> <<-profs[3][i][2], profs[3][i][1]>>]
    \o <<(<<0, H>>)>>
    \o [i \in 1..Len(profs[4]) |-> <<profs[4][i][1], H + profs[4][i][2]>>]

\* profile p on side k, q on the next side, the other two sides straight
Place(k, p, q) ==
    [i \in 1..4 |-> IF i = k THEN p ELSE IF i = (k % 4) + 1 THEN q ELSE Straight]

\* pieces of the exact size 1.0018 with profiles on two adjacent sides
ProfilePieces ==
    {PiecePts(Half, Half, 0, Place(k, pq[1], pq[2])) :
        k \in 1..4, pq \in Profiles \X Profiles}

\* pieces with a knob or a hole on each of the four sides
FullPieces ==
    {PiecePts(Half, Half, 0, f) : f \in [1..4 -> {Knob, Inward(Knob)}]}

\* pieces of other sizes (5000 units is side length 1), level or not
SizedPieces ==
    {PiecePts(W, Half, skew, Place(k, p, Straight)) :
        W \in {5000, 5007, 5008, 5009, 5010, 5011}, skew \in {0, 1},
        k \in 1..4, p \in {Straight, Knob}}

\* the unit square with a bump of two points on one side
UnitSquareBump(k) == PiecePts(5000, 5000, 0, Place(k, Bump2, Straight))

\* the same outline from another first point
RotateStart(pts, n) ==
    [i \in 1..Len(pts) |-> pts[((i + n - 1) % Len(pts)) + 1]]

\* the files of one outline: from two first points, in both directions
OutlineFiles(pts) ==
    {OutlineMesh(pts), OutlineMesh(Reverse(pts)),
     OutlineMesh(RotateStart(pts, 3)), OutlineMesh(Reverse(RotateStart(pts, 3)))}

PieceMeshes ==
    UNION {OutlineFiles(pts) :
           pts \in ProfilePieces \cup FullPieces \cup SizedPieces
                   \cup {UnitSquareBump(k) : k \in 1..4}}

\* a piece that passes every check, with two knobs and two holes
GoodPiece ==
    OutlineMesh(PiecePts(Half, Half, 0, <<Knob, Inward(Knob), Knob, Inward(Knob)>>))

-----------------------------------------------------------------------------
(* Polygons on a 3 x 3 grid: every list of 3 to MaxPolyLen distinct points  *)

MaxPolyLen == 5

PolyGrid == (0..2) \X (0..2)

-----------------------------------------------------------------------------
(* A catalog run: up to MaxFiles files, each a piece that passes or one that *)
(* fails at one of the checks                                               *)

MaxFiles == 2

CatalogMeshes ==
    {GoodPiece,
     OutlineMesh(PiecePts(Half, Half, 0, Place(1, Straight, Straight))),
     OutlineMesh(PiecePts(Half, Half, 0, Place(4, Inward(KnobMin), Straight))),
     BadQuad,
     CyclePair(2, 3),
     OutlineMesh(PiecePts(5000, Half, 0, Place(1, Knob, Straight))),
     OutlineMesh(PiecePts(Half, Half, 0, Place(1, Knob, Bump2))),
     OutlineMesh(PiecePts(Half, Half, 0, Place(1, Knob, NoCross))),
     OutlineMesh(PiecePts(Half, Half, 0, Place(1, Knob, Shallow)))}

-----------------------------------------------------------------------------
(* Specifications *)

\* main over the files of a catalog
Init == \E fs \in UNION {[1..n -> CatalogMeshes] : n \in 0..MaxFiles} : Start(fs)

Spec == Init /\ [][Next]_vars

\* one small mesh file
InitMesh ==
    \/ \E n \in 1..MaxFaces : \E es \in [1..n -> GridEdges] : Start(<<MeshOf(GridPts, es)>>)
    \/ \E m, n \in 2..MaxCycle : Start(<<CyclePair(m, n)>>)
    \/ Start(<<BadQuad>>)
    \/ Start(<<GoodPiece>>)

SpecMesh == InitMesh /\ [][Next]_vars

\* one puzzle piece file
InitPiece == \E m \in PieceMeshes : Start(<<m>>)

SpecPiece == InitPiece /\ [][Next]_vars

\* one file whose outline is a polygon of the grid
InitPoly ==
    \/ \E n \in 3..MaxPolyLen : \E c \in [1..n -> PolyGrid] :
           /\ \A i, j \in 1..n : i # j => c[i] # c[j]
           /\ Start(<<OutlineMesh(c)>>)
    \/ Start(<<GoodPiece>>)

SpecPoly == InitPoly /\ [][Next]_vars

-----------------------------------------------------------------------------
(* Claims about unextrude, checked under SpecMesh *)

\* unextrude has returned: poly is its result, p2p the adjacency it built
Unextruded == pc = "corners"

\* the pairs of 2D points that the quads of the file being read give (line 23)
FaceEdges(mesh) ==
    {Points2(mesh.v, mesh.f[j]) : j \in {j \in 1..Len(mesh.f) : Len(mesh.f[j]) = 4}}

\* C1: whenever unextrude returns a polygon, every consecutive pair of its
\* points, the pair (last, first) included, is an edge given by a quad face:
\* the two points are each other's neighbours in the adjacency map.
C1_EdgesFromFaces ==
    Unextruded =>
        \A i \in 1..Len(poly) :
            LET a == poly[i]
                b == poly[(i % Len(poly)) + 1]
            IN  /\ HasKey(p2p, a) /\ HasKey(p2p, b)
                /\ b \in Range(Get(p2p, a))
                /\ a \in Range(Get(p2p, b))
                /\ (<<a, b>> \in FaceEdges(files[fi]) \/ <<b, a>> \in FaceEdges(files[fi]))

\* a polygon of four points was returned, after the chain was reversed
C1_Witness ==
    /\ Unextruded
    /\ Len(poly) = 4
    /\ poly = Reverse(Chain(p2p).val)
    /\ poly # Chain(p2p).val

\* C2: unextrude returns a polygon only when the boundary edges form one
\* simple cycle through all the distinct boundary points: every returned
\* polygon holds each distinct boundary point exactly once.
C2_SingleSimpleCycle ==
    Unextruded =>
        /\ Cardinality(Range(poly)) = Len(poly)
        /\ Range(poly) = {p2p[i].k : i \in 1..Len(p2p)}

\* C3: the shoelace sum of a returned polygon is not negative; the walked
\* chain is reversed exactly when its own sum is negative, and returned as
\* walked otherwise.
C3_Clockwise ==
    Unextruded =>
        LET walked == Chain(p2p).val IN
        /\ Area(poly) >= 0
        /\ (Area(walked) < 0 => poly = Reverse(walked))
        /\ (Area(walked) >= 0 => poly = walked)

\* a chain walked with a negative sum was returned reversed, with a positive sum
C3_Witness ==
    /\ Unextruded
    /\ Area(Chain(p2p).val) < 0
    /\ Area(poly) > 0
    /\ poly # Chain(p2p).val

-----------------------------------------------------------------------------
(* Claims about get_knobs, checked under SpecPiece *)

\* get_knobs has returned: polylines is its result, poly its argument
Returned == pc = "extend"

\* the sides of poly as the endpoint check of lines 96-98 sees them
Normalized == RotateNormalize(Sides(poly))

\* the sides of poly after line 99, when every endpoint check passed
Trimmed ==
    LET n == Normalized IN <<Trim(n[1]), Trim(n[2]), Trim(n[3]), Trim(n[4])>>

\* the profile as get_knobs returns it when it is a knob: (t, h) / 1.0018
Doubled(prof) == [i \in 1..Len(prof) |-> <<2 * prof[i][1], 2 * prof[i][2]>>]

\* the files of the unit square with a bump of two points on one side
UnitBumpFiles == UNION {OutlineFiles(UnitSquareBump(k)) : k \in 1..4}

\* bumps of four points at least 0.15 deep where they cross the middle
DeepBumps == {Knob, KnobMin, Late}

\* the files of the square of side 1.0018 with bump p, outward or inward, on side k
BumpFiles(k, p) ==
    OutlineFiles(PiecePts(Half, Half, 0, Place(k, p, Straight)))
        \cup OutlineFiles(PiecePts(Half, Half, 0, Place(k, Inward(p), Straight)))

\* the deep bumps, each with its files
DeepBumpFiles ==
    {[bump |-> p, files |-> UNION {BumpFiles(k, p) : k \in 1..4}] : p \in DeepBumps}

\* C4 as stated: on the unit square (side 1) with two extra points on one
\* side, unextrude then get_knobs complete without error and return one curve.
C4_UnitSquareRoundTrip ==
    files[1] \in UnitBumpFiles =>
        /\ pc # "failed"
        /\ (Returned => Len(polylines) = 1)

\* C4 as amended: on a square of side 1.0018 with four extra points on one
\* side, at least 0.15 deep across the middle, the round trip completes and
\* returns exactly one curve, the bump as a knob; on the unit square with two
\* extra points the endpoint check of line 97 fails.
C4_OversizedRoundTrip ==
    /\ \A b \in DeepBumpFiles :
           files[1] \in b.files =>
               /\ pc # "failed"
               /\ (Returned => polylines = <<Doubled(b.bump)>>)
               /\ (pc = "done" => Len(out[1]) = 1)
    /\ files[1] \in UnitBumpFiles =>
           /\ pc \notin {"filter", "flip", "extend", "done"}
           /\ (pc = "failed" => err = 97)

\* the round trip of a square of side 1.0018 with an inward bump returned one knob
C4_Witness ==
    /\ files[1] \in OutlineFiles(PiecePts(Half, Half, 0, Place(2, Inward(Knob), Straight)))
    /\ Returned
    /\ polylines = <<Doubled(Knob)>>

\* |n / Den| < 0.0001 and |n / Den| > 0.0001, by cross multiplication
Below(n) == Abs(n) * 10000 < Den

Above(n) == Abs(n) * 10000 > Den

\* the deviations of the two endpoints of a normalised side, as numerators
Deviations(pl) == <<pl[1][1], pl[1][2], pl[Len(pl)][1] - Den, pl[Len(pl)][2]>>

\* both endpoints are less than 0.0001 away from (0, 0) and (1, 0): the squared
\* distance n * n / Den^2 is below 0.0001^2 only for n * n <= 1
Near(pl) ==
    LET d == Deviations(pl) IN
    /\ d[1] * d[1] + d[2] * d[2] <= 1
    /\ d[3] * d[3] + d[4] * d[4] <= 1

\* C5 as stated: when both endpoints of every side are less than 0.0001 from
\* their expected positions the endpoint check passes, and when a coordinate
\* of an endpoint is more than 0.0001 off the check fails.
C5_OneTolerance ==
    /\ (pc = "failed" /\ err \in {97, 98}) => \E k \in 1..4 : ~Near(polylines[k])
    /\ pc \in {"filter", "flip", "extend"} =>
           \A k \in 1..4 : \A j \in 1..4 : ~Above(Deviations(Normalized[k])[j])

\* |x| < 0.0001 for x and |y| < 0.000001 for y, on numerators over Den
WithinTolerance(pl) ==
    LET d == Deviations(pl) IN
    /\ Abs(d[1]) * 10000 < Den
    /\ Abs(d[3]) * 10000 < Den
    /\ Abs(d[2]) * 1000000 < Den
    /\ Abs(d[4]) * 1000000 < Den

\* C5 as amended: the endpoint check passes exactly when, on every side, the
\* x of both endpoints is less than 0.0001 off and the y less than 0.000001
\* off; 0.0001 is the boundary for x only.
C5_TwoTolerances ==
    /\ (pc = "failed" /\ err \in {97, 98}) => \E k \in 1..4 : ~WithinTolerance(polylines[k])
    /\ pc \in {"filter", "flip", "extend"} => \A k \in 1..4 : WithinTolerance(Normalized[k])

\* the check passed with an endpoint off by 1 / 10018 in x (less than 0.0001)
C5_Witness ==
    /\ pc = "filter"
    /\ \E k \in 1..4 : Abs(Deviations(Normalized[k])[1]) = 1

\* the curves before the flip of lines 103-112, recomputed from poly
BeforeFlip == NonEmpty(Trimmed)

\* C6: a curve and its mirror image in y give the same output, whose y at the
\* crossing of x = 0.5 is positive and at least 0.15; a curve whose crossing y
\* is positive is returned unchanged.
C6_HoleToKnob ==
    Returned =>
        /\ Len(polylines) = Len(BeforeFlip)
        /\ \A k \in 1..Len(polylines) :
               LET c == BeforeFlip[k]
                   r == polylines[k]
               IN  /\ FlipOne(MirrorY(c)).ok
                   /\ FlipOne(MirrorY(c)).val = r
                   /\ HasCrossing(r)
                   /\ CyNum(r, CrossingIndex(r)) > 0
                   /\ 20 * CyNum(r, CrossingIndex(r)) >= 3 * Den * CyDen(r, CrossingIndex(r))
                   /\ (CyNum(c, CrossingIndex(c)) > 0 => r = c)
                   /\ (CyNum(c, CrossingIndex(c)) < 0 => r = MirrorY(c))

\* a hole and a knob were returned by one call, the hole mirrored
C6_Witness ==
    /\ Returned
    /\ \E k \in 1..Len(polylines) : polylines[k] # BeforeFlip[k]
    /\ \E k \in 1..Len(polylines) : polylines[k] = BeforeFlip[k]

\* a returned curve with (0, 0) in front and (1, 0) at the back
WithEnds(knob) == <<(<<0, 0>>)>> \o knob \o <<(<<Den, 0>>)>>

\* C7 as stated: the midline check succeeds on every returned curve with its
\* ends put back: a segment with x0 < 0.5 <= x1 exists and the y at x = 0.5
\* on the first such segment has magnitude at least 0.15.
C7_MidlineWithEnds ==
    Returned =>
        \A k \in 1..Len(polylines) :
            LET e == WithEnds(polylines[k]) IN
            /\ HasCrossing(e)
            /\ 20 * Abs(CyNum(e, CrossingIndex(e))) >= 3 * Den * CyDen(e, CrossingIndex(e))

\* C7 as amended: on every returned curve the midline check succeeds (the y at
\* the first crossing is at least +0.15); with the ends put back a crossing
\* segment exists, and it is the same segment, so the check succeeds, when
\* the curve's first point has x < 0.5.
C7_MidlineOfCurve ==
    Returned =>
        \A k \in 1..Len(polylines) :
            LET c == polylines[k]
                e == WithEnds(c)
            IN  /\ HasCrossing(c)
                /\ 20 * CyNum(c, CrossingIndex(c)) >= 3 * Den * CyDen(c, CrossingIndex(c))
                /\ HasCrossing(e)
                /\ c[1][1] < Half =>
                       /\ CrossingIndex(e) = CrossingIndex(c) + 1
                       /\ 20 * CyNum(e, CrossingIndex(e)) >= 3 * Den * CyDen(e, CrossingIndex(e))

\* a curve of the least depth, 752 units, was returned
C7_Witness ==
    /\ Returned
    /\ \E k \in 1..Len(polylines) : polylines[k] = Doubled(KnobMin)

\* the k-th of the sides t, in side order, that is not empty
NthCurveSide(t, k) ==
    CHOOSE i \in 1..4 :
        /\ Len(t[i]) > 0
        /\ Cardinality({j \in 1..(i - 1) : Len(t[j]) > 0}) = k - 1

\* C9: a side with 1, 2 or 3 points left after its endpoints are removed makes
\* get_knobs fail; otherwise the sides with 0 points left are discarded: the
\* returned list has 0 to 4 curves of at least 4 points each, in the side
\* order right, bottom, left, top.
C9_StraightSidesDiscarded ==
    /\ (pc = "failed" /\ err = 101) => \E i \in 1..4 : Len(polylines[i]) \in {1, 2, 3}
    /\ (pc = "failed" /\ err \in {106, 110}) => \A i \in 1..Len(polylines) : Len(polylines[i]) >= 4
    /\ pc \in {"flip", "extend"} =>
           \A t \in {Trimmed} :
               /\ \A i \in 1..4 : Len(t[i]) \notin {1, 2, 3}
               /\ Len(polylines) \in 0..4
               /\ Len(polylines) = Cardinality({i \in 1..4 : Len(t[i]) > 0})
               /\ \A k \in 1..Len(polylines) :
                      /\ Len(polylines[k]) >= 4
                      /\ Len(polylines[k]) = Len(t[NthCurveSide(t, k)])
                      /\ \A i \in 1..Len(polylines[k]) :
                             /\ polylines[k][i][1] = t[NthCurveSide(t, k)][i][1]
                             /\ Abs(polylines[k][i][2]) = Abs(t[NthCurveSide(t, k)][i][2])

\* two curves of different shapes were returned, from the left and the top side
C9_Witness ==
    /\ Returned
    /\ Len(polylines) = 2
    /\ polylines[1] # polylines[2]
    /\ Len(Trimmed[1]) = 0
    /\ Len(Trimmed[2]) = 0

-----------------------------------------------------------------------------
(* Claim about main, checked under Spec *)

\* file i passes unextrude and get_knobs
Passes(i) ==
    /\ Unextrude(files[i]).ok
    /\ GetKnobs(Unextrude(files[i]).val).ok

\* the curves of the first n files, which all pass
RECURSIVE Catalog(_)
Catalog(n) ==
    IF n = 0 THEN <<>>
    ELSE Catalog(n - 1) \o GetKnobs(Unextrude(files[n]).val).val

\* C8: when a check fails while a piece is processed, in unextrude or in
\* get_knobs, also on a side checked after other sides passed, no curve of
\* the piece is returned by get_knobs or added to the catalog list, and
\* knobs.txt is written only after every piece was processed without failure.
C8_NoPartialResult ==
    /\ \A i \in 1..(fi - 1) : Passes(i)
    /\ knobs = Catalog(fi - 1)
    /\ (fi <= Len(files) /\ ~Passes(fi)) => pc # "extend"
    /\ Returned => polylines = GetKnobs(Unextrude(files[fi]).val).val
    /\ pc = "failed" =>
           /\ out = <<>>
           /\ err # 0
           /\ ~Passes(fi)
    /\ out # <<>> =>
           /\ pc = "done"
           /\ err = 0
           /\ fi = Len(files) + 1
           /\ \A i \in 1..Len(files) : Passes(i)
           /\ Len(out[1]) = Len(knobs)

\* the second piece failed the depth check on its second side, after its first
\* side and the whole first piece had passed: the catalog holds the first
\* piece's curves only and nothing is written
C8_Witness ==
    /\ pc = "failed"
    /\ err = 110
    /\ fi = 2
    /\ Len(knobs) = 4
    /\ Len(polylines) = 2
    /\ out = <<>>

-----------------------------------------------------------------------------
(* Claim about the side extraction, checked under SpecPoly *)

\* twice the signed area of the triangle a, b, c
Cross(a, b, c) == (b[1] - a[1]) * (c[2] - a[2]) - (b[2] - a[2]) * (c[1] - a[1])

Sign(n) == IF n > 0 THEN 1 ELSE IF n < 0 THEN -1 ELSE 0

Min2(a, b) == IF a < b THEN a ELSE b

Max2(a, b) == IF a > b THEN a ELSE b

\* c lies on the closed segment a b
OnSegment(a, b, c) ==
    /\ Cross(a, b, c) = 0
    /\ Min2(a[1], b[1]) <= c[1] /\ c[1] <= Max2(a[1], b[1])
    /\ Min2(a[2], b[2]) <= c[2] /\ c[2] <= Max2(a[2], b[2])

\* the closed segments a b and c d have a common point
Meet(a, b, c, d) ==
    \/ /\ Sign(Cross(a, b, c)) # Sign(Cross(a, b, d))
       /\ Sign(Cross(c, d, a)) # Sign(Cross(c, d, b))
    \/ OnSegment(a, b, c) \/ OnSegment(a, b, d)
    \/ OnSegment(c, d, a) \/ OnSegment(c, d, b)

Succ(c, i) == (i % Len(c)) + 1

\* a simple polygon: distinct points, consecutive edges meet only in their
\* common point, other edges do not meet
Simple(c) ==
    /\ Len(c) >= 3
    /\ \A i, j \in 1..Len(c) : i # j => c[i] # c[j]
    /\ \A i \in 1..Len(c) :
           /\ ~OnSegment(c[Succ(c, i)], c[i], c[Succ(c, Succ(c, i))])
           /\ ~OnSegment(c[Succ(c, i)], c[Succ(c, Succ(c, i))], c[i])
    /\ \A i, j \in 1..Len(c) :
           (j # i /\ j # Succ(c, i) /\ i # Succ(c, j)) =>
               ~Meet(c[i], c[Succ(c, i)], c[j], c[Succ(c, j)])

DistinctCorners(c) ==
    \A i, j \in 1..4 : i # j => CornerIndexes(c)[i] # CornerIndexes(c)[j]

\* the number of steps forward from corner 1 to corner k
Ahead(c, k) == (CornerIndexes(c)[k] - CornerIndexes(c)[1]) % Len(c)

\* the sides pls hold every edge of the polygon c exactly once, and their
\* lengths sum to len(c) + 4
Partition(c, pls) ==
    /\ Len(pls[1]) + Len(pls[2]) + Len(pls[3]) + Len(pls[4]) = Len(c) + 4
    /\ \A i \in 1..Len(c) :
           Cardinality({kj \in (1..4) \X (1..Len(c)) :
                           /\ kj[2] < Len(pls[kj[1]])
                           /\ pls[kj[1]][kj[2]] = c[i]
                           /\ pls[kj[1]][kj[2] + 1] = c[Succ(c, i)]}) = 1

\* get_knobs has cut its argument poly into the four sides
SidesCut == pc = "rotate"

\* a simple polygon with a positive shoelace sum and four distinct corners
Regular == Simple(poly) /\ Area(poly) > 0 /\ DistinctCorners(poly)

\* C10 as stated: for a simple polygon with a positive shoelace sum and four
\* distinct corners, walking forward meets the corners in the order upper
\* right, lower right, lower left, upper left, the four sides hold every edge
\* exactly once and their lengths sum to len(poly) + 4; for the same polygon
\* with reversed winding this does not hold.
C10_PartitionNeverReversed ==
    (SidesCut /\ Regular) =>
        /\ 0 < Ahead(poly, 2) /\ Ahead(poly, 2) < Ahead(poly, 3)
        /\ Ahead(poly, 3) < Ahead(poly, 4)
        /\ Partition(poly, polylines)
        /\ ~Partition(Reverse(poly), Sides(Reverse(poly)))

\* C10 as amended: the same, and for the polygon with reversed winding it
\* does not hold whenever the four corners of the reversed polygon are
\* pairwise distinct too (with ties, two corners of the reversed polygon can
\* coincide and its sides can still hold every edge once).
C10_Partition ==
    (SidesCut /\ Regular) =>
        /\ 0 < Ahead(poly, 2) /\ Ahead(poly, 2) < Ahead(poly, 3)
        /\ Ahead(poly, 3) < Ahead(poly, 4)
        /\ Partition(poly, polylines)
        /\ DistinctCorners(Reverse(poly)) =>
               ~Partition(Reverse(poly), Sides(Reverse(poly)))

\* a polygon of five points was cut, one side of three points, one side
\* wrapping around the end of the list, and the reversed polygon has four
\* distinct corners
C10_Witness ==
    /\ SidesCut
    /\ Regular
    /\ Len(poly) = 5
    /\ \E k \in 1..4 : Len(polylines[k]) = 3
    /\ \E k \in 1..4 : CornerIndexes(poly)[(k % 4) + 1] < CornerIndexes(poly)[k]
    /\ CornerIndexes(poly)[1] # 1
    /\ DistinctCorners(Reverse(poly))

=============================================================================
